---- MODULE Spec2Model ----
(***************************************************************************)
(* Task manager with a mock client-side authentication gate.               *)
(*                                                                         *)
(*   src/components/auth.js   AuthManager (session state, token, persist)  *)
(*   src/script.js            task list handlers, saveTasks / loadTasks    *)
(*   src/utils/storage.js     StorageManager / AuthStorage (the adapter)   *)
(*                                                                         *)
(* The state is the browser's localStorage (strings by key), the module    *)
(* level variables of auth.js (currentUser, authToken) and of script.js    *)
(* (tasks, currentUser), the page that is open, the clock, and the login   *)
(* calls suspended in their simulated delay.                               *)
(*                                                                         *)
(* JavaScript values are tagged records (field t).  A localStorage entry   *)
(* is a string; it is modelled by how it was produced and therefore by     *)
(* what parsing it yields:                                                 *)
(*   [t |-> "null"]                 no entry (getItem returns null)        *)
(*   [t |-> "tok", segs |-> <<..>>] dot-joined base64 segments             *)
(*   [t |-> "iso", ms |-> n]        Date#toISOString text                  *)
(*   [t |-> "json", v |-> x]        JSON.stringify(x)                      *)
(*   [t |-> "garbage"]              text that is neither JSON nor dotted   *)
(***************************************************************************)
EXTENDS Integers, Sequences, FiniteSets, TLC

\* ------------------------------------------------------------------ bounds

MaxTicks == 2
MaxTaskTicks == 1
MaxTasks == 2
MaxInFlight == 1
MaxReadGap == 1

\* ---------------------------------------------------------------- constants

\* auth.js:198  24 * 60 * 60 * 1000
SESSION_MS == 86400000

\* auth.js:28-32 STORAGE_KEYS
AUTH_TOKEN == "taskManager_authToken"
USER_SESSION == "taskManager_userSession"
LOGIN_TIME == "taskManager_loginTime"

\* auth.js:6-21
MOCK_USERS ==
    << [id |-> "admin123", username |-> "admin", password |-> "password123",
        email |-> "admin@taskmanager.com", role |-> "admin"],
       [id |-> "user456", username |-> "user", password |-> "user123",
        email |-> "user@taskmanager.com", role |-> "user"] >>

UserIds == { MOCK_USERS[i].id : i \in DOMAIN MOCK_USERS }

\* mutant: one key for every user
TaskKeyShared(uid) == "tasks_admin123"

\* script.js:293 / 309   `tasks_${currentUser.id}`
TaskKey(uid) == "tasks_" \o uid

Keys == {AUTH_TOKEN, USER_SESSION, LOGIN_TIME} \cup { TaskKey(u) : u \in UserIds }

\* ------------------------------------------------------------------- values

Null == [t |-> "null"]
Garbage == [t |-> "garbage"]
IsoString(ms) == [t |-> "iso", ms |-> ms]

\* JSON.stringify of a value that JSON represents exactly (strings, booleans,
\* numbers, arrays and plain objects of these)
JSONstringify(v) == [t |-> "json", v |-> v]

\* JSON.parse: the value for JSON text, a SyntaxError for any other text
\* (a token "eyJ...", an ISO date "2026-...", garbage)
JSONparse(s) ==
    IF s.t = "json" THEN [ok |-> TRUE, v |-> s.v] ELSE [ok |-> FALSE]

\* An absent or empty userId: `!task.userId` and `task.userId || x` treat
\* undefined and "" alike
NoUserId == ""

\* String.prototype.toLowerCase and trim on the identifiers that are entered
ToLowerCase(s) ==
    CASE s = "ADMIN" -> "admin"
      [] s = "Admin" -> "admin"
      [] s = "USER" -> "user"
      [] s = "Admin@TaskManager.com" -> "admin@taskmanager.com"
      [] s = "USER@TASKMANAGER.COM" -> "user@taskmanager.com"
      [] s = " User@TaskManager.com " -> " user@taskmanager.com "
      [] s = " admin " -> " admin "
      [] s = "Password123" -> "password123"
      [] s = "USER123" -> "user123"
      [] OTHER -> s

\* mutant: the text is taken as it was typed
TrimNothing(s) == s

Trim(s) ==
    CASE s = " user@taskmanager.com " -> "user@taskmanager.com"
      [] s = " User@TaskManager.com " -> "User@TaskManager.com"
      [] s = " admin " -> "admin"
      [] s = " " -> ""
      [] s = " milk " -> "milk"
      [] OTHER -> s

\* ------------------------------------------------------------ token codec

\* auth.js:191  btoa(JSON.stringify({alg, typ}))
HeaderSeg == [k |-> "hdr"]
\* auth.js:200  btoa('mock-signature-' + user.id)
SignatureSeg(uid) == [k |-> "sig", id |-> uid]
\* auth.js:192-199  btoa(JSON.stringify({sub, username, email, role, iat, exp}))
PayloadSeg(user, iat, exp) ==
    [k |-> "payload", sub |-> user.id, username |-> user.username,
     email |-> user.email, role |-> user.role, iat |-> iat, exp |-> exp]
\* a payload object that has no exp property
PayloadNoExpSeg(user) == [k |-> "payloadNoExp", sub |-> user.id]
\* a segment that atob or JSON.parse rejects
BadSeg == [k |-> "bad"]

Token(segs) == [t |-> "tok", segs |-> segs]

\* auth.js:190-203; the clock is read twice: iat at t1, exp at t2
generateMockToken(user, t1, t2) ==
    Token(<< HeaderSeg, PayloadSeg(user, t1, t2 + SESSION_MS), SignatureSeg(user.id) >>)

\* String.prototype.split('.')
Split(s) == IF s.t = "tok" THEN s.segs ELSE << s >>

\* auth.js:217  JSON.parse(atob(tokenParts[1])): the object the payload
\* segment was made from, an Error for a segment that is no base64 of JSON
decodePayload(token) ==
    LET seg == Split(token)[2] IN
    IF seg.k = "payload"
    THEN [ok |-> TRUE, sub |-> seg.sub, username |-> seg.username,
          email |-> seg.email, role |-> seg.role, iat |-> seg.iat, exp |-> seg.exp]
    ELSE [ok |-> FALSE]

\* mutant: the header and the signature segment are verified
TokenAcceptedVerified(token, clock) ==
    LET tokenParts == Split(token) IN
    /\ Len(tokenParts) = 3
    /\ tokenParts[2].k = "payload"
    /\ tokenParts[1] = HeaderSeg
    /\ tokenParts[3] = SignatureSeg(tokenParts[2].sub)
    /\ ~(clock > tokenParts[2].exp)

\* mutant: the expiry test written with >= instead of >
TokenAcceptedAtExpiry(token, clock) ==
    LET tokenParts == Split(token) IN
    /\ Len(tokenParts) = 3
    /\ tokenParts[2].k \in {"payload", "payloadNoExp"}
    /\ (tokenParts[2].k = "payload" => ~(clock >= tokenParts[2].exp))

\* auth.js:212-225, the body of the try block: TRUE when no Error is thrown
TokenAccepted(token, clock) ==
    LET tokenParts == Split(token) IN
    /\ Len(tokenParts) = 3
    /\ tokenParts[2].k \in {"payload", "payloadNoExp"}
    /\ (tokenParts[2].k = "payload" => ~(clock > tokenParts[2].exp))

\* -------------------------------------------------------------------- state

VARIABLES
    ls,               \* window.localStorage: key -> entry (Null when absent)
    writable,         \* FALSE: localStorage.setItem throws (quota exceeded)
    authCurrentUser,  \* auth.js:24    let currentUser
    authToken,        \* auth.js:25    let authToken
    appCurrentUser,   \* script.js:8   let currentUser
    tasks,            \* script.js:6   let tasks
    page,             \* the document that is open: "none", "login", "app"
    now,              \* Date.now()
    pending,          \* login() calls suspended in simulateDelay
    isLoading,        \* part_000:9   LoginForm.isLoading
    storage,          \* storage.js:357  the StorageManager instance
    last              \* the call that ran last, with its arguments and result

vars == << ls, writable, authCurrentUser, authToken, appCurrentUser, tasks, page,
           now, pending, isLoading, storage, last >>

\* the clock reading when the model starts; stored records are older
T0 == 10

Ticks(clock) == ((clock - T0) \div SESSION_MS) + ((clock - T0) % SESSION_MS)

\* ------------------------------------------------------------- AuthManager

\* mutant: the input is compared as it was typed, without toLowerCase
findUserCaseSensitive(usernameOrEmail, password) ==
    LET normalizedInput == Trim(usernameOrEmail)
        matches(user) ==
            /\ \/ ToLowerCase(user.username) = normalizedInput
               \/ ToLowerCase(user.email) = normalizedInput
            /\ user.password = password
        found == { i \in DOMAIN MOCK_USERS : matches(MOCK_USERS[i]) }
    IN  IF found = {} THEN Null
        ELSE MOCK_USERS[CHOOSE i \in found : \A j \in found : i <= j]

\* mutant: the password comparison left out
findUserAnyPassword(usernameOrEmail, password) ==
    LET normalizedInput == Trim(ToLowerCase(usernameOrEmail))
        found == { i \in DOMAIN MOCK_USERS :
                     \/ ToLowerCase(MOCK_USERS[i].username) = normalizedInput
                     \/ ToLowerCase(MOCK_USERS[i].email) = normalizedInput }
    IN  IF found = {} THEN Null
        ELSE MOCK_USERS[CHOOSE i \in found : \A j \in found : i <= j]

\* auth.js:173-183
findUser(usernameOrEmail, password) ==
    LET normalizedInput == Trim(ToLowerCase(usernameOrEmail))
        matches(user) ==
            /\ \/ ToLowerCase(user.username) = normalizedInput
               \/ ToLowerCase(user.email) = normalizedInput
            /\ user.password = password
        found == { i \in DOMAIN MOCK_USERS : matches(MOCK_USERS[i]) }
    IN  IF found = {} THEN Null
        ELSE MOCK_USERS[CHOOSE i \in found : \A j \in found : i <= j]

\* auth.js:74-81
SessionRecord(user, clock) ==
    [t |-> "session", id |-> user.id, username |-> user.username,
     email |-> user.email, role |-> user.role, isAuthenticated |-> TRUE,
     loginTime |-> IsoString(clock)]

\* auth.js:134-136
isAuthenticatedOf(user) ==
    user # Null /\ user.t = "session" /\ user.isAuthenticated = TRUE

isAuthenticated == isAuthenticatedOf(authCurrentUser)

\* mutant: the login time entry is not removed
clearUserSessionKeepsLoginTime(store) ==
    [k \in Keys |-> IF k \in {AUTH_TOKEN, USER_SESSION} THEN Null ELSE store[k]]

\* auth.js:270-278  three removeItem calls
clearUserSession(store) ==
    [k \in Keys |-> IF k \in {AUTH_TOKEN, USER_SESSION, LOGIN_TIME} THEN Null ELSE store[k]]

\* auth.js:239-247  three setItem calls in one try block; the first throws
\* when the storage takes no writes, and the catch block only logs
saveUserSession(store, user, token, clock, writeOk) ==
    IF ~writeOk THEN store
    ELSE [k \in Keys |->
            CASE k = AUTH_TOKEN -> token
              [] k = USER_SESSION -> JSONstringify(user)
              [] k = LOGIN_TIME -> IsoString(clock)
              [] OTHER -> store[k]]

\* auth.js:105-120  the state logout() leaves behind.  The redirect it asks
\* for takes effect when the next document is loaded (PageLoad).
logoutState(store) ==
    [user |-> Null, token |-> Null, store |-> clearUserSession(store)]

\* mutant: the session record is taken without asking for the token
loadUserSessionWithoutToken(store) ==
    LET storedToken == store[AUTH_TOKEN]
        storedUser == store[USER_SESSION]
    IN  IF storedUser # Null
        THEN IF JSONparse(storedUser).ok
             THEN [user |-> JSONparse(storedUser).v, token |-> storedToken, store |-> store]
             ELSE [user |-> Null, token |-> storedToken, store |-> clearUserSession(store)]
        ELSE [user |-> Null, token |-> Null, store |-> store]

\* auth.js:252-265, called with currentUser = authToken = null
loadUserSession(store) ==
    LET storedToken == store[AUTH_TOKEN]
        storedUser == store[USER_SESSION]
    IN  IF storedToken # Null /\ storedUser # Null
        THEN IF JSONparse(storedUser).ok
             THEN [user |-> JSONparse(storedUser).v, token |-> storedToken, store |-> store]
             ELSE [user |-> Null, token |-> storedToken, store |-> clearUserSession(store)]
        ELSE [user |-> Null, token |-> Null, store |-> store]

\* auth.js:208-234
validateSession(user, token, store, clock) ==
    IF user # Null /\ token # Null
    THEN IF TokenAccepted(token, clock)
         THEN [result |-> TRUE, user |-> user, token |-> token, store |-> store]
         ELSE [result |-> FALSE] @@ logoutState(store)
    ELSE [result |-> FALSE, user |-> user, token |-> token, store |-> store]

\* auth.js:43-46
initializeAuth(store, clock) ==
    LET l == loadUserSession(store)
    IN  validateSession(l.user, l.token, l.store, clock)

\* ----------------------------------------------------------- StorageManager

\* JavaScript values handed to the adapter.  Null is null.
Undefined == [t |-> "undefined"]
Str(s) == [t |-> "str", s |-> s]
Num(n) == [t |-> "num", n |-> n]
Bool(b) == [t |-> "bool", b |-> b]
\* [1, 2]
Arr == [t |-> "arr", elems |-> << 1, 2 >>]
\* {name: "x"}
PlainObject == [t |-> "obj", name |-> "x"]
\* {value: 7}
ObjectWithValue == [t |-> "objv", value |-> Num(7)]

\* the typeof operator
TypeOf(v) ==
    CASE v.t = "str" -> "string"
      [] v.t = "num" -> "number"
      [] v.t = "bool" -> "boolean"
      [] v.t = "undefined" -> "undefined"
      [] OTHER -> "object"

\* storage.js:49-53  the object setItem serializes
Envelope(value, clock, type) ==
    [t |-> "envelope", value |-> value, timestamp |-> clock, type |-> type]

\* storage.js:49-53  JSON.stringify of that object: a property whose value
\* is undefined is left out of the text
EnvelopeText(value, clock) ==
    IF value = Undefined
    THEN JSONstringify([t |-> "envelopeNoValue", timestamp |-> clock, type |-> "undefined"])
    ELSE JSONstringify(Envelope(value, clock, TypeOf(value)))

\* the text undefined, which is no JSON
UndefinedText == [t |-> "undefinedText"]

\* storage.js:82  parsed.hasOwnProperty('value'), for a parsed value that is
\* not null: an envelope has the property, and so has any other object that
\* was stored with a property of that name
HasOwnValue(parsed) == parsed.t \in {"envelope", "objv"}

\* localStorage.getItem / setItem / removeItem / clear on any key
Entry(store, key) == IF key \in DOMAIN store THEN store[key] ELSE Null
Put(store, key, text) ==
    [k \in DOMAIN store \cup {key} |-> IF k = key THEN text ELSE store[k]]
Cleared(store) == [k \in DOMAIN store |-> Null]

\* storage.js:73-90  getItem on the durable backing (isAvailable is true).
\* JSON.parse throws for a text that is no JSON, and parsed.hasOwnProperty
\* throws for a parsed null: both end in the catch block.
getItem(store, key, defaultValue) ==
    LET storedItem == Entry(store, key)
        parsed == JSONparse(storedItem)
    IN  IF storedItem = Null THEN defaultValue
        ELSE IF ~parsed.ok THEN defaultValue
        ELSE IF parsed.v = Null THEN defaultValue
        ELSE IF ~HasOwnValue(parsed.v) THEN parsed.v
        ELSE parsed.v.value

\* storage.js:247-249
getAuthToken(store) == getItem(store, AUTH_TOKEN, Null)

\* storage.js:276-278
getUserSession(store) == getItem(store, USER_SESSION, Null)

\* storage.js:203  inMemoryStorage = {} is a plain object: besides the keys
\* that were set it answers to the names it inherits from Object.prototype
ObjectPrototypeNames == { "constructor" }

\* String.prototype.startsWith on the keys and prefixes in use
StartsWith(key, prefix) ==
    \/ prefix = ""
    \/ (prefix = "taskManager_" /\ key \in {AUTH_TOKEN, USER_SESSION, LOGIN_TIME})
    \/ (prefix = "tasks_" /\ key \in { TaskKey(u) : u \in UserIds })

\* storage.js:205-211
setInMemory(mem, key, value, clock) ==
    [k \in DOMAIN mem \cup {key} |->
        IF k = key THEN [value |-> value, timestamp |-> clock] ELSE mem[k]]

\* storage.js:213-216  stored is the own entry, else the inherited property
\* (an object without a property value), else undefined
getInMemory(mem, key, defaultValue) ==
    IF key \in DOMAIN mem THEN mem[key].value
    ELSE IF key \in ObjectPrototypeNames THEN Undefined
    ELSE defaultValue

\* storage.js:218-221
removeInMemory(mem, key) == [k \in DOMAIN mem \ {key} |-> mem[k]]

\* storage.js:227-229  Object.keys: the own keys
getInMemoryKeys(mem, prefix) == { k \in DOMAIN mem : StartsWith(k, prefix) }

\* storage.js:16-34  the constructor: the probe writes and removes a test
\* entry; it fails when either call throws
newStorageManager(throws) ==
    [made |-> TRUE, isAvailable |-> ~throws, inMemoryStorage |-> << >>]

\* mutant: the catch block of setItem reports success
storageSetItemReportsSuccess(sm, store, key, value, clock, throws) ==
    IF ~sm.isAvailable
    THEN [result |-> TRUE, store |-> store,
          sm |-> [sm EXCEPT !.inMemoryStorage = setInMemory(@, key, value, clock)]]
    ELSE IF throws
    THEN [result |-> TRUE, store |-> store, sm |-> sm]
    ELSE [result |-> TRUE, store |-> Put(store, key, EnvelopeText(value, clock)), sm |-> sm]

\* storage.js:42-60  setItem; throws: localStorage.setItem throws
storageSetItem(sm, store, key, value, clock, throws) ==
    IF ~sm.isAvailable
    THEN [result |-> TRUE, store |-> store,
          sm |-> [sm EXCEPT !.inMemoryStorage = setInMemory(@, key, value, clock)]]
    ELSE IF throws
    THEN [result |-> FALSE, store |-> store, sm |-> sm]
    ELSE [result |-> TRUE, store |-> Put(store, key, EnvelopeText(value, clock)), sm |-> sm]

\* storage.js:68-91  getItem; throws: localStorage.getItem throws
storageGetItem(sm, store, key, defaultValue, throws) ==
    IF ~sm.isAvailable THEN getInMemory(sm.inMemoryStorage, key, defaultValue)
    ELSE IF throws THEN defaultValue
    ELSE getItem(store, key, defaultValue)

\* storage.js:98-110  removeItem
storageRemoveItem(sm, store, key, throws) ==
    IF ~sm.isAvailable
    THEN [result |-> TRUE, store |-> store,
          sm |-> [sm EXCEPT !.inMemoryStorage = removeInMemory(@, key)]]
    ELSE IF throws
    THEN [result |-> FALSE, store |-> store, sm |-> sm]
    ELSE [result |-> TRUE, store |-> Put(store, key, Null), sm |-> sm]

\* storage.js:116-129  clear
storageClear(sm, store, throws) ==
    IF ~sm.isAvailable
    THEN [result |-> TRUE, store |-> store, sm |-> [sm EXCEPT !.inMemoryStorage = << >>]]
    ELSE IF throws
    THEN [result |-> FALSE, store |-> store, sm |-> sm]
    ELSE [result |-> TRUE, store |-> Cleared(store), sm |-> sm]

\* storage.js:136-154  getKeys, as the set of the keys in the array
storageGetKeys(sm, store, prefix, throws) ==
    IF ~sm.isAvailable THEN getInMemoryKeys(sm.inMemoryStorage, prefix)
    ELSE IF throws THEN {}
    ELSE { k \in DOMAIN store : store[k] # Null /\ StartsWith(k, prefix) }

\* -------------------------------------------------------------- task store

Task(id, text, completed, createdAt, userId) ==
    [id |-> id, text |-> text, completed |-> completed,
     createdAt |-> IsoString(createdAt), userId |-> userId]

TaskList(items) == [t |-> "list", items |-> items]

\* script.js:285-298; setItem throws (quota) when ~writeOk
saveTasks(user, list, store, writeOk) ==
    IF user = Null \/ ~writeOk THEN store
    ELSE [store EXCEPT ![TaskKey(user.id)] = JSONstringify(TaskList(list))]

\* mutant: the ownership filter keeps every record
OwnedByAnyone(task, user) == TRUE

\* script.js:316
OwnedBy(task, user) == task.userId = NoUserId \/ task.userId = user.id

\* script.js:319-322
Stamp(task, user) ==
    [task EXCEPT !.userId = IF @ = NoUserId THEN user.id ELSE @]

\* script.js:316-322  the repair pass over the parsed array
Repair(items, user) ==
    LET kept == SelectSeq(items, LAMBDA task : OwnedBy(task, user))
    IN  [i \in 1..Len(kept) |-> Stamp(kept[i], user)]

\* script.js:300-333
loadTasks(user, store, writeOk) ==
    IF user = Null THEN [tasks |-> << >>, store |-> store]
    ELSE LET storedTasks == store[TaskKey(user.id)]
             parsed == JSONparse(storedTasks)
         IN  IF storedTasks = Null THEN [tasks |-> << >>, store |-> store]
             ELSE IF ~parsed.ok \/ parsed.v.t # "list"
                  THEN [tasks |-> << >>, store |-> store]
                  ELSE LET cleaned == Repair(parsed.v.items, user)
                       IN  [tasks |-> cleaned,
                            store |-> saveTasks(user, cleaned, store, writeOk)]

\* mutant: the first record is taken, whatever its id
FindIndexFirstRecord(list, taskId) ==
    IF list # << >> THEN 1 ELSE 0

\* Array.prototype.find: the first element with the id, 0 when none
FindIndex(list, taskId) ==
    IF \E i \in 1..Len(list) : list[i].id = taskId
    THEN CHOOSE i \in 1..Len(list) :
            /\ list[i].id = taskId
            /\ \A j \in 1..(i - 1) : list[j].id # taskId
    ELSE 0

\* --------------------------------------------------------------------- Init

\* what localStorage may hold when a page is first opened
AdminUser == MOCK_USERS[1]
OtherUser == MOCK_USERS[2]

StoredTokens ==
    { Null,
      generateMockToken(AdminUser, T0, T0),
      Token(<< HeaderSeg, PayloadSeg(AdminUser, T0, T0 + SESSION_MS) >>),
      Token(<< HeaderSeg, BadSeg, SignatureSeg(AdminUser.id) >>),
      Token(<< HeaderSeg, PayloadNoExpSeg(AdminUser), SignatureSeg(AdminUser.id) >>),
      Token(<< HeaderSeg, PayloadSeg(AdminUser, T0, T0 + SESSION_MS), SignatureSeg("tampered") >>) }

StoredSessions ==
    { Null,
      JSONstringify(SessionRecord(AdminUser, T0)),
      JSONstringify([SessionRecord(AdminUser, T0) EXCEPT !.isAuthenticated = FALSE]),
      Garbage }

StoredOtherTasks ==
    { Null,
      JSONstringify(TaskList(<< Task(3, "tea", FALSE, 3, AdminUser.id) >>)) }

RepairList ==
    JSONstringify(TaskList(<< Task(1, "milk", FALSE, 1, NoUserId),
                              Task(2, "eggs", TRUE, 2, OtherUser.id) >>))

StoredAdminTasks ==
    { Null, Garbage, RepairList,
      JSONstringify(TaskList(<< Task(1, "milk", TRUE, 1, AdminUser.id) >>)) }

Storage(tok, ses, ta, tb) ==
    [k \in Keys |->
        CASE k = AUTH_TOKEN -> tok
          [] k = USER_SESSION -> ses
          [] k = LOGIN_TIME -> IF ses = Null THEN Null ELSE IsoString(T0)
          [] k = TaskKey(AdminUser.id) -> ta
          [] OTHER -> tb]

\* storage.js has not run: there is no StorageManager instance
NoStorageManager == [made |-> FALSE, isAvailable |-> FALSE, inMemoryStorage |-> << >>]

\* no document is open yet
Closed ==
    /\ writable \in BOOLEAN
    /\ authCurrentUser = Null
    /\ authToken = Null
    /\ appCurrentUser = Null
    /\ tasks = << >>
    /\ page = "none"
    /\ now = T0
    /\ pending = {}
    /\ isLoading = FALSE
    /\ storage = NoStorageManager
    /\ last = [op |-> "none"]

\* localStorage when the first page is opened: whatever an earlier visit, an
\* earlier version or the user left there
Init ==
    /\ \E tok \in StoredTokens, ses \in StoredSessions,
          ta \in StoredAdminTasks, tb \in StoredOtherTasks :
          ls = Storage(tok, ses, ta, tb)
    /\ Closed

\* any session entries, with task entries that need the repair pass
InitAuth ==
    /\ \E tok \in StoredTokens, ses \in StoredSessions :
          ls = Storage(tok, ses, RepairList,
                       JSONstringify(TaskList(<< Task(3, "tea", FALSE, 3, AdminUser.id) >>)))
    /\ Closed

\* a session that passes validation (with its isAuthenticated flag set or
\* not), with any task entries
InitTasks ==
    /\ \E ses \in StoredSessions \ {Null, Garbage},
          ta \in StoredAdminTasks, tb \in StoredOtherTasks :
          ls = Storage(generateMockToken(AdminUser, T0, T0), ses, ta, tb)
    /\ Closed

\* ------------------------------------------------------------------ actions

Pages == {"login", "app"}
\* the (identifier, password) pairs that are submitted
Credentials ==
    { << "", "" >>, << "", "password123" >>, << "ADMIN", "" >>,
      << "ADMIN", "password123" >>, << " User@TaskManager.com ", "user123" >>,
      << "ADMIN", "user123" >>, << "nobody", "password123" >> }
Texts == {"", " ", " milk "}

\* the ids the handlers are called with: those of the listed records, and one
\* that no record has
TaskIds == { tasks[i].id : i \in 1..Len(tasks) } \cup {now + 1}

\* A document is opened (a followed redirect, a reload, a typed address).
\* auth.js:323 constructs the AuthManager; on the app page script.js:367-385
\* then runs init().
PageLoad(p) ==
    LET a == initializeAuth(ls, now) IN
        LET l == IF p = "app" THEN loadTasks(a.user, a.store, writable)
                 ELSE [tasks |-> << >>, store |-> a.store]
        IN  /\ page' = p
            /\ authCurrentUser' = a.user
            /\ authToken' = a.token
            /\ appCurrentUser' = IF p = "app" THEN a.user ELSE Null
            /\ tasks' = l.tasks
            /\ ls' = l.store
            /\ pending' = {}
            /\ isLoading' = FALSE
            /\ last' = [op |-> "pageLoad"]
            /\ UNCHANGED << now, writable, storage >>

\* auth.js:54-61  login() up to the await
LoginCall(usernameOrEmail, password) ==
    /\ page # "none"
    /\ IF usernameOrEmail = "" \/ password = ""
       THEN /\ last' = [op |-> "login", success |-> FALSE, form |-> FALSE,
                        error |-> "Username and password are required"]
            /\ UNCHANGED pending
       ELSE /\ Cardinality(pending) < MaxInFlight
            /\ pending' = pending \cup {[u |-> usernameOrEmail, p |-> password,
                                          form |-> FALSE]}
            /\ last' = [op |-> "loginCall"]
    /\ UNCHANGED << ls, writable, isLoading, storage, authCurrentUser, authToken, appCurrentUser, tasks, page, now >>

\* mutant: the loading state is reset on the success path only
LoginResumeAtLoadingKept(call, d) ==
    /\ call \in pending
    /\ pending' = pending \ {call}
    /\ LET user == findUser(call.u, call.p) IN
       IF user = Null
       THEN /\ d = 0
            /\ last' = [op |-> "login", success |-> FALSE, form |-> call.form,
                        error |-> "Invalid username or password"]
            /\ UNCHANGED << ls, authCurrentUser, authToken, now >>
       ELSE /\ authToken' = generateMockToken(user, now, now + d)
            /\ authCurrentUser' = SessionRecord(user, now)
            /\ ls' = saveUserSession(ls, authCurrentUser', authToken', now + d, writable)
            /\ last' = [op |-> "login", success |-> TRUE, form |-> call.form,
                        error |-> ""]
            /\ now' = now + d
    /\ isLoading' = IF call.form /\ findUser(call.u, call.p) # Null THEN FALSE
                    ELSE isLoading
    /\ UNCHANGED << writable, storage, appCurrentUser, tasks, page >>

\* auth.js:63-99  login() after the delay.  generateMockToken reads the
\* clock for iat (auth.js:197) and again for exp (auth.js:198); d is the time
\* that passes between the two readings.
LoginResumeAt(call, d) ==
    /\ call \in pending
    /\ pending' = pending \ {call}
    /\ LET user == findUser(call.u, call.p) IN
       IF user = Null
       THEN /\ d = 0
            /\ last' = [op |-> "login", success |-> FALSE, form |-> call.form,
                        error |-> "Invalid username or password"]
            /\ UNCHANGED << ls, authCurrentUser, authToken, now >>
       ELSE /\ authToken' = generateMockToken(user, now, now + d)
            /\ authCurrentUser' = SessionRecord(user, now)
            /\ ls' = saveUserSession(ls, authCurrentUser', authToken', now + d, writable)
            /\ last' = [op |-> "login", success |-> TRUE, form |-> call.form,
                        error |-> ""]
            /\ now' = now + d
    \* part_000:140-149  the form's call goes on to show the result and, in
    \* the finally block, setLoadingState(false)
    /\ isLoading' = IF call.form THEN FALSE ELSE isLoading
    /\ UNCHANGED << writable, storage, appCurrentUser, tasks, page >>

\* login() after the delay, both readings within one millisecond
LoginResume(call) == LoginResumeAt(call, 0)

\* ---- the login form (part_000)

\* what is typed into the username and password fields
FormInputs ==
    { << "", "" >>, << "ADMIN", "abc" >>, << "ADMIN", "password123" >>,
      << " User@TaskManager.com ", "user123" >>, << "nobody", "pass/word" >> }

\* the identifiers in use that match the username pattern with 2 to 30
\* characters (script.js:403-407) or the email pattern (script.js:413)
WellFormedIdentifiers == { "ADMIN", "nobody", "User@TaskManager.com" }

\* script.js:452-458
validateRequired(value) == Trim(value) # ""

\* script.js:546-560 with 465-475 and 482-507
validateUsernameOrEmail(value) == value = "" \/ Trim(value) \in WellFormedIdentifiers

\* script.js:517-539
validatePassword(value) == value = "" \/ (Len(value) >= 6 /\ Len(value) <= 128)

\* part_000:54-57 with script.js:786-797: every rule of both fields holds
validateForm(username, password) ==
    /\ validateRequired(username) /\ validateUsernameOrEmail(username)
    /\ validateRequired(password) /\ validatePassword(password)

\* script.js:624-636  trim, then the HTML characters are replaced
sanitizeInput(input) ==
    IF input = "pass/word" THEN "pass&#x2F;word" ELSE Trim(input)

\* mutant: the handler does not look at isLoading
handleSubmitUnguarded(username, password) ==
    /\ page = "login"
    /\ IF ~validateForm(username, password)
       THEN /\ last' = [op |-> "submit", started |-> FALSE, outcome |-> "invalid"]
            /\ UNCHANGED << isLoading, pending >>
       ELSE /\ isLoading' = TRUE
            /\ pending' = pending \cup {[u |-> sanitizeInput(username),
                                          p |-> sanitizeInput(password), form |-> TRUE]}
            /\ last' = [op |-> "submit", started |-> TRUE, outcome |-> "loading"]
    /\ UNCHANGED << ls, writable, storage, authCurrentUser, authToken, appCurrentUser,
                    tasks, page, now >>

\* part_000:113-138  handleSubmit up to the await, for a submit event of the
\* form and for the Enter key in a field (part_000:279-283).  The rest of the
\* handler runs when the login resumes (LoginResumeAt).
handleSubmit(username, password) ==
    /\ page = "login"
    /\ IF isLoading
       THEN /\ last' = [op |-> "submit", started |-> FALSE, outcome |-> "busy"]
            /\ UNCHANGED << isLoading, pending >>
       ELSE IF ~validateForm(username, password)
       THEN /\ last' = [op |-> "submit", started |-> FALSE, outcome |-> "invalid"]
            /\ UNCHANGED << isLoading, pending >>
       ELSE /\ isLoading' = TRUE
            /\ pending' = pending \cup {[u |-> sanitizeInput(username),
                                          p |-> sanitizeInput(password), form |-> TRUE]}
            /\ last' = [op |-> "submit", started |-> TRUE, outcome |-> "loading"]
    /\ UNCHANGED << ls, writable, storage, authCurrentUser, authToken, appCurrentUser,
                    tasks, page, now >>

\* auth.js:105-120
Logout ==
    /\ page # "none"
    /\ LET o == logoutState(ls) IN
       /\ authCurrentUser' = o.user
       /\ authToken' = o.token
       /\ ls' = o.store
    /\ last' = [op |-> "logout", had |-> authCurrentUser # Null]
    /\ UNCHANGED << writable, isLoading, storage, appCurrentUser, tasks, page, now, pending >>

\* auth.js:208-234 called on the constructed manager
ValidateSession ==
    /\ page # "none"
    /\ LET v == validateSession(authCurrentUser, authToken, ls, now) IN
       /\ authCurrentUser' = v.user
       /\ authToken' = v.token
       /\ ls' = v.store
       /\ last' = [op |-> "validateSession", result |-> v.result,
                    had |-> (authCurrentUser # Null /\ authToken # Null)]
    /\ UNCHANGED << writable, isLoading, storage, appCurrentUser, tasks, page, now, pending >>

\* script.js:53-88
handleAddTask(text) ==
    /\ page = "app"
    /\ Len(tasks) < MaxTasks
    /\ LET taskText == Trim(text) IN
       IF taskText = ""
       THEN /\ last' = [op |-> "add", outcome |-> "empty", text |-> text]
            /\ UNCHANGED << tasks, ls >>
       ELSE IF ~isAuthenticated
       THEN \* script.js:65 asks for the login page
            /\ last' = [op |-> "add", outcome |-> "unauthenticated", text |-> text]
            /\ UNCHANGED << tasks, ls >>
       ELSE IF appCurrentUser = Null
       THEN \* script.js:74 throws a TypeError: nothing was pushed or saved
            /\ last' = [op |-> "add", outcome |-> "threw", text |-> text]
            /\ UNCHANGED << tasks, ls >>
       ELSE /\ tasks' = Append(tasks, Task(now, taskText, FALSE, now, appCurrentUser.id))
            /\ ls' = saveTasks(appCurrentUser, tasks', ls, writable)
            /\ last' = [op |-> "add", outcome |-> "added", text |-> text]
    /\ UNCHANGED << writable, isLoading, storage, authCurrentUser, authToken, appCurrentUser, page, now, pending >>

\* script.js:91-101
handleDeleteTask(taskId) ==
    /\ page = "app"
    /\ tasks' = SelectSeq(tasks, LAMBDA task : task.id # taskId)
    /\ ls' = saveTasks(appCurrentUser, tasks', ls, writable)
    \* script.js:100 announces the deletion whether or not a record was found
    /\ last' = [op |-> "delete", id |-> taskId, announced |-> "deleted"]
    /\ UNCHANGED << writable, isLoading, storage, authCurrentUser, authToken, appCurrentUser, page, now, pending >>

\* script.js:104-116
handleToggleTask(taskId) ==
    /\ page = "app"
    /\ LET i == FindIndex(tasks, taskId) IN
       IF i # 0
       THEN /\ tasks' = [tasks EXCEPT ![i].completed = ~@]
            /\ ls' = saveTasks(appCurrentUser, tasks', ls, writable)
            /\ last' = [op |-> "toggle", found |-> TRUE, id |-> taskId]
       ELSE /\ last' = [op |-> "toggle", found |-> FALSE, id |-> taskId]
            /\ UNCHANGED << tasks, ls >>
    /\ UNCHANGED << writable, isLoading, storage, authCurrentUser, authToken, appCurrentUser, page, now, pending >>

\* the count of the clear-completed call right before this one, -1 when the
\* call before was another one
CountBefore == IF last.op = "clearCompleted" THEN last.count ELSE -1

\* mutant: the filter keeps the completed records instead of the active ones
handleClearCompletedInverted ==
    /\ page = "app"
    /\ LET completedCount == Len(SelectSeq(tasks, LAMBDA task : task.completed)) IN
       IF completedCount = 0
       THEN /\ last' = [op |-> "clearCompleted", count |-> 0, before |-> CountBefore]
            /\ UNCHANGED << tasks, ls >>
       ELSE /\ tasks' = SelectSeq(tasks, LAMBDA task : task.completed)
            /\ ls' = saveTasks(appCurrentUser, tasks', ls, writable)
            /\ last' = [op |-> "clearCompleted", count |-> completedCount,
                         before |-> CountBefore]
    /\ UNCHANGED << writable, isLoading, storage, authCurrentUser, authToken, appCurrentUser, page, now, pending >>

\* script.js:134-147; the count is completedCount, which the handler
\* announces when it is not 0
handleClearCompleted ==
    /\ page = "app"
    /\ LET completedCount == Len(SelectSeq(tasks, LAMBDA task : task.completed)) IN
       IF completedCount = 0
       THEN /\ last' = [op |-> "clearCompleted", count |-> 0, before |-> CountBefore]
            /\ UNCHANGED << tasks, ls >>
       ELSE /\ tasks' = SelectSeq(tasks, LAMBDA task : ~task.completed)
            /\ ls' = saveTasks(appCurrentUser, tasks', ls, writable)
            /\ last' = [op |-> "clearCompleted", count |-> completedCount,
                         before |-> CountBefore]
    /\ UNCHANGED << writable, isLoading, storage, authCurrentUser, authToken, appCurrentUser, page, now, pending >>

\* mutant: a timer ends the session once the clock has passed the token's exp
TickWithExpiryTimer(d) ==
    /\ Ticks(now) < MaxTicks
    /\ now' = now + d
    /\ last' = [op |-> "tick"]
    /\ IF authCurrentUser # Null /\ authToken # Null /\ ~TokenAccepted(authToken, now + d)
       THEN /\ authCurrentUser' = Null
            /\ authToken' = Null
            /\ ls' = clearUserSession(ls)
       ELSE UNCHANGED << ls, authCurrentUser, authToken >>
    /\ UNCHANGED << writable, isLoading, storage, appCurrentUser, tasks, page, pending >>

\* time passes: a millisecond, or a session lifetime
Tick(d) ==
    /\ Ticks(now) < MaxTicks
    /\ now' = now + d
    /\ last' = [op |-> "tick"]
    /\ UNCHANGED << ls, writable, isLoading, storage, authCurrentUser, authToken, appCurrentUser, tasks, page, pending >>

\* the identifiers and passwords findUser is called with: each entry's
\* username and email in several spellings, padded with blanks, and strings
\* that are no entry's
Identifiers ==
    { "admin", "ADMIN", "Admin", "admin@taskmanager.com", "Admin@TaskManager.com",
      " admin ", "user", "USER", "user@taskmanager.com", "USER@TASKMANAGER.COM",
      " User@TaskManager.com ", "nobody", "" }
Secrets == { "password123", "Password123", "user123", "USER123", "wrong", "" }

\* auth.js:173-183 called on its own
FindUserCall(usernameOrEmail, password) ==
    /\ last' = [op |-> "findUser", u |-> usernameOrEmail, p |-> password,
                result |-> findUser(usernameOrEmail, password)]
    /\ UNCHANGED << ls, writable, isLoading, storage, authCurrentUser, authToken, appCurrentUser, tasks,
                    page, now, pending >>

\* ---- the adapter's callers

\* the keys, values, defaults and prefixes the adapter is called with
AdapterKeys == { AUTH_TOKEN, "constructor" }
JsValues ==
    { Str("abc"), Num(5), Bool(TRUE), Null, Undefined, Arr, PlainObject, ObjectWithValue }
Defaults == { Null, Str("dflt") }
Prefixes == { "", "taskManager_" }

\* whether the durable medium throws on a call: a write throws while the
\* quota is exceeded, and any call may throw (access denied)
Throws(isWrite) == IF isWrite /\ ~writable THEN {TRUE} ELSE BOOLEAN

\* storage.js:357  new StorageManager()
NewStorageManager ==
    \E throws \in Throws(TRUE) :
       /\ storage' = newStorageManager(throws)
       /\ last' = [op |-> "new", threw |-> throws]
       /\ UNCHANGED << ls, writable, authCurrentUser, authToken, appCurrentUser, tasks,
                       page, now, pending, isLoading >>

\* storage.js:42-60
StorageSetItem(key, value) ==
    /\ storage.made
    /\ \E throws \in Throws(TRUE) :
          LET r == storageSetItem(storage, ls, key, value, now, throws) IN
          /\ ls' = r.store
          /\ storage' = r.sm
          /\ last' = [op |-> "setItem", key |-> key, value |-> value,
                       result |-> r.result, threw |-> (storage.isAvailable /\ throws)]
    /\ UNCHANGED << writable, authCurrentUser, authToken, appCurrentUser, tasks,
                    page, now, pending, isLoading >>

\* storage.js:68-91
StorageGetItem(key, defaultValue) ==
    /\ storage.made
    /\ \E throws \in Throws(FALSE) :
          last' = [op |-> "getItem", key |-> key, defaultValue |-> defaultValue,
                   returned |-> storageGetItem(storage, ls, key, defaultValue, throws),
                   threw |-> (storage.isAvailable /\ throws)]
    /\ UNCHANGED << ls, storage, writable, authCurrentUser, authToken, appCurrentUser,
                    tasks, page, now, pending, isLoading >>

\* storage.js:98-110
StorageRemoveItem(key) ==
    /\ storage.made
    /\ \E throws \in Throws(FALSE) :
          LET r == storageRemoveItem(storage, ls, key, throws) IN
          /\ ls' = r.store
          /\ storage' = r.sm
          /\ last' = [op |-> "removeItem", key |-> key, result |-> r.result,
                       threw |-> (storage.isAvailable /\ throws)]
    /\ UNCHANGED << writable, authCurrentUser, authToken, appCurrentUser, tasks,
                    page, now, pending, isLoading >>

\* storage.js:116-129
StorageClear ==
    /\ storage.made
    /\ \E throws \in Throws(FALSE) :
          LET r == storageClear(storage, ls, throws) IN
          /\ ls' = r.store
          /\ storage' = r.sm
          /\ last' = [op |-> "clear", result |-> r.result,
                       threw |-> (storage.isAvailable /\ throws)]
    /\ UNCHANGED << writable, authCurrentUser, authToken, appCurrentUser, tasks,
                    page, now, pending, isLoading >>

\* storage.js:136-154
StorageGetKeys(prefix) ==
    /\ storage.made
    /\ \E throws \in Throws(FALSE) :
          last' = [op |-> "getKeys", prefix |-> prefix,
                   keys |-> storageGetKeys(storage, ls, prefix, throws),
                   threw |-> (storage.isAvailable /\ throws)]
    /\ UNCHANGED << ls, storage, writable, authCurrentUser, authToken, appCurrentUser,
                    tasks, page, now, pending, isLoading >>

ValidCredentials ==
    { << "ADMIN", "password123" >>, << " User@TaskManager.com ", "user123" >> }

\* the whole application
\* time passes while the task page is used
TaskTick ==
    /\ Ticks(now) < MaxTaskTicks
    /\ Tick(1)

Next ==
    \/ \E p \in Pages : PageLoad(p)
    \/ \E c \in Credentials : LoginCall(c[1], c[2])
    \/ \E call \in pending : LoginResume(call)
    \/ Logout
    \/ ValidateSession
    \/ \E text \in Texts : handleAddTask(text)
    \/ \E taskId \in TaskIds : handleDeleteTask(taskId)
    \/ \E taskId \in TaskIds : handleToggleTask(taskId)
    \/ handleClearCompleted
    \/ \E c \in FormInputs : handleSubmit(c[1], c[2])
    \/ NewStorageManager
    \/ \E key \in AdapterKeys, value \in JsValues : StorageSetItem(key, value)
    \/ \E key \in AdapterKeys, defaultValue \in Defaults : StorageGetItem(key, defaultValue)
    \/ \E key \in AdapterKeys : StorageRemoveItem(key)
    \/ StorageClear
    \/ \E prefix \in Prefixes : StorageGetKeys(prefix)
    \/ \E d \in {1, SESSION_MS} : Tick(d)

Spec == Init /\ [][Next]_vars

\* The session manager on its own: no task handler is called.  The task
\* handlers leave currentUser, authToken and the session entries unchanged.
NextAuth ==
    \/ \E p \in Pages : PageLoad(p)
    \/ \E c \in Credentials : LoginCall(c[1], c[2])
    \/ \E call \in pending : LoginResume(call)
    \/ Logout
    \/ ValidateSession
    \/ \E d \in {1, SESSION_MS} : Tick(d)

SpecAuth == InitAuth /\ [][NextAuth]_vars

\* The task store with the session changes that reach it (a page load, a
\* login as either user, a logout), within one session lifetime.
NextTasks ==
    \/ \E p \in Pages : PageLoad(p)
    \/ \E c \in ValidCredentials : LoginCall(c[1], c[2])
    \/ \E call \in pending : LoginResume(call)
    \/ Logout
    \/ \E text \in Texts : handleAddTask(text)
    \/ \E taskId \in TaskIds : handleDeleteTask(taskId)
    \/ \E taskId \in TaskIds : handleToggleTask(taskId)
    \/ handleClearCompleted
    \/ TaskTick

SpecTasks == InitTasks /\ [][NextTasks]_vars

\* The task handlers on their own: the page is opened with the stored session,
\* the handlers are called in any order, the session may be ended meanwhile;
\* nobody logs in again.
NextTaskOps ==
    \/ \E p \in Pages : PageLoad(p)
    \/ Logout
    \/ \E text \in Texts : handleAddTask(text)
    \/ \E taskId \in TaskIds : handleDeleteTask(taskId)
    \/ \E taskId \in TaskIds : handleToggleTask(taskId)
    \/ handleClearCompleted
    \/ TaskTick

SpecTaskOps == InitTasks /\ [][NextTaskOps]_vars

\* The login page while it stays open.  The form is submitted with any input,
\* login() is also called directly, and the session is ended at any time.
\* Every login() call waits on a timer (auth.js:297-299) and a timer that
\* was set fires while the document is open: each pending call resumes.
InitLoginForm ==
    /\ \E ses \in {Null, Garbage} : ls = Storage(Null, ses, Null, Null)
    /\ writable \in BOOLEAN
    /\ authCurrentUser = Null
    /\ authToken = Null
    /\ appCurrentUser = Null
    /\ tasks = << >>
    /\ page = "login"
    /\ now = T0
    /\ pending = {}
    /\ isLoading = FALSE
    /\ storage = NoStorageManager
    /\ last = [op |-> "pageLoad"]

\* the calls that can be pending
Calls ==
    { [u |-> c[1], p |-> c[2], form |-> FALSE] : c \in ValidCredentials }
    \cup { [u |-> sanitizeInput(c[1]), p |-> sanitizeInput(c[2]), form |-> TRUE] :
              c \in FormInputs }

NextLoginForm ==
    \/ \E c \in FormInputs : handleSubmit(c[1], c[2])
    \/ \E c \in ValidCredentials : LoginCall(c[1], c[2])
    \/ \E call \in pending : LoginResume(call)
    \/ Logout
    \/ TaskTick

SpecLoginForm ==
    /\ InitLoginForm
    /\ [][NextLoginForm]_vars
    /\ \A call \in Calls : WF_vars(LoginResume(call))

\* The task page across the end of the session lifetime: the stored session
\* is loaded, the clock passes the token's exp, the handlers are called and
\* the session is validated or ended in any order.
NextExpiry ==
    \/ \E p \in Pages : PageLoad(p)
    \/ ValidateSession
    \/ Logout
    \/ \E text \in Texts : handleAddTask(text)
    \/ \E taskId \in TaskIds : handleDeleteTask(taskId)
    \/ \E taskId \in TaskIds : handleToggleTask(taskId)
    \/ handleClearCompleted
    \/ \E d \in {1, SESSION_MS} : Tick(d)

SpecExpiry == InitTasks /\ [][NextExpiry]_vars

\* The token codec in use: nothing is stored, every token is one that
\* generateMockToken made in this run, with up to MaxReadGap milliseconds
\* between its two clock readings, and is validated as time passes.
InitToken ==
    /\ ls = Storage(Null, Null, Null, Null)
    /\ Closed

NextToken ==
    \/ \E p \in Pages : PageLoad(p)
    \/ \E c \in ValidCredentials : LoginCall(c[1], c[2])
    \/ \E call \in pending, d \in 0..MaxReadGap :
          /\ Ticks(now) + d <= MaxTicks
          /\ LoginResumeAt(call, d)
    \/ ValidateSession
    \/ \E d \in {1, SESSION_MS} : Tick(d)

SpecToken == InitToken /\ [][NextToken]_vars

\* The storage adapter on its own.  localStorage holds one entry that was
\* written without the adapter (a legacy value, or nothing); a StorageManager
\* is constructed and called with every key, value, default and prefix of the
\* sets above, while the medium may throw on any call.
LegacyEntries ==
    { JSONstringify(v) : v \in JsValues \ {Undefined} } \cup { Null, UndefinedText, Garbage }

InitStorage ==
    /\ \E legacy \in LegacyEntries : ls = Storage(legacy, Null, Null, Null)
    /\ Closed

NextStorage ==
    \/ NewStorageManager
    \/ \E key \in AdapterKeys, value \in JsValues : StorageSetItem(key, value)
    \/ \E key \in AdapterKeys, defaultValue \in Defaults : StorageGetItem(key, defaultValue)
    \/ \E key \in AdapterKeys : StorageRemoveItem(key)
    \/ StorageClear
    \/ \E prefix \in Prefixes : StorageGetKeys(prefix)

SpecStorage == InitStorage /\ [][NextStorage]_vars

\* The credential directory on its own: findUser on every identifier and
\* password of the sets above.
InitDirectory ==
    /\ ls = Storage(Null, Null, Null, Null)
    /\ Closed

NextDirectory ==
    \E u \in Identifiers, p \in Secrets : FindUserCall(u, p)

SpecDirectory == InitDirectory /\ [][NextDirectory]_vars

\* ============================================================ properties

SessionKeys == {AUTH_TOKEN, USER_SESSION, LOGIN_TIME}
AuthState == << authCurrentUser, authToken, ls >>
AllButLast == << ls, writable, authCurrentUser, authToken, appCurrentUser, tasks,
                 page, now, pending, isLoading, storage >>

\* what the specification calls a token that fails validation: not three segments, a
\* payload that does not decode, or a clock past the payload's exp
TokenProblem(token, clock) ==
    \/ Len(Split(token)) # 3
    \/ Split(token)[2].k = "bad"
    \/ (Split(token)[2].k = "payload" /\ clock > Split(token)[2].exp)

\* the array a task entry parses to, << >> when it is absent or no array
ParsedList(entry) ==
    IF entry # Null /\ JSONparse(entry).ok /\ JSONparse(entry).v.t = "list"
    THEN JSONparse(entry).v.items
    ELSE << >>

\* the last call was a task operation that changed or re-saved the list of
\* the user the task store holds
TaskOpWrote ==
    /\ appCurrentUser # Null
    /\ \/ (last.op = "add" /\ last.outcome = "added")
       \/ (last.op = "toggle" /\ last.found)
       \/ last.op = "delete"
       \/ (last.op = "clearCompleted" /\ last.count > 0)

\* ----------------------------------------------------------------------- C1
\* C1: every record of the in-memory task list carries the id of the user
\* the list was loaded for (script.js currentUser), after the load and after
\* any add, toggle, delete and clear-completed.
C1_TasksCarryLoadedUser ==
    appCurrentUser # Null =>
        \A i \in 1..Len(tasks) : tasks[i].userId = appCurrentUser.id

\* a legacy record was stamped by the load, the foreign one dropped, and a
\* record was added after it
C1_Witness ==
    /\ last.op = "add"
    /\ last.outcome = "added"
    /\ Len(tasks) = 2
    /\ tasks[1] = Task(1, "milk", FALSE, 1, AdminUser.id)
    /\ tasks[2].id >= T0

\* ----------------------------------------------------------------------- C2
\* C2: the entry tasks_<u> is written only while u is the task store's user,
\* and a load for user B yields only records of the entry tasks_<B.id> that
\* carry B's id or none: no record saved under another user.
C2_OwnerIsolation ==
    [][ /\ \A u \in UserIds :
            ls'[TaskKey(u)] # ls[TaskKey(u)]
                => (appCurrentUser' # Null /\ appCurrentUser'.id = u)
        /\ (last'.op = "pageLoad" /\ appCurrentUser' # Null) =>
            LET own == ParsedList(ls[TaskKey(appCurrentUser'.id)])
            IN  \A i \in 1..Len(tasks') :
                  /\ tasks'[i].userId = appCurrentUser'.id
                  /\ \E j \in 1..Len(own) :
                        /\ own[j].userId \in {NoUserId, appCurrentUser'.id}
                        /\ [own[j] EXCEPT !.userId = appCurrentUser'.id] = tasks'[i]
      ]_vars

\* the first user has saved a record in this run, and a load for the second
\* user has dropped the first user's record from the second user's entry
C2_Witness ==
    /\ last.op = "pageLoad"
    /\ appCurrentUser # Null
    /\ appCurrentUser.id = OtherUser.id
    /\ \E j \in 1..Len(ParsedList(ls[TaskKey(AdminUser.id)])) :
          ParsedList(ls[TaskKey(AdminUser.id)])[j].id >= T0
    /\ tasks = << >>
    /\ ls[TaskKey(OtherUser.id)] = JSONstringify(TaskList(<< >>))

\* ----------------------------------------------------------------------- C3
\* C3: after every mutating task operation, and after the repair pass of a
\* load, the entry tasks_<currentUser.id> is the serialization of the whole
\* in-memory list.
C3_PersistedListEqualsMemory ==
    /\ TaskOpWrote
        => ls[TaskKey(appCurrentUser.id)] = JSONstringify(TaskList(tasks))
    /\ (last.op = "pageLoad" /\ appCurrentUser # Null /\ tasks # << >>)
        => ls[TaskKey(appCurrentUser.id)] = JSONstringify(TaskList(tasks))

\* ----------------------------------------------------------------------- C9
\* C9: no task operation writes or stamps records with the id of a user
\* other than the session manager's current one.
C9_TaskOpsUseCurrentIdentity ==
    TaskOpWrote =>
        /\ authCurrentUser # Null
        /\ authCurrentUser.id = appCurrentUser.id

\* ----------------------------------------------------------------------- C4
\* C4: login() with an empty identifier or password, an unknown identifier or
\* a wrong password reports success=false with an error message and leaves
\* currentUser, authToken and localStorage exactly as they were.
C4_FailedLoginChangesNothing ==
    [][ /\ (last'.op = "login" /\ pending' = pending)
            => (~last'.success /\ last'.error # "" /\ UNCHANGED AuthState)
        /\ \A call \in pending \ pending' :
            (last'.op = "login" /\ << call.u, call.p >> \notin ValidCredentials)
                => (~last'.success /\ last'.error # "" /\ UNCHANGED AuthState)
        /\ (last'.op = "login" /\ ~last'.success) => UNCHANGED AuthState
      ]_vars

\* a login with a wrong password or unknown identifier has failed while a
\* session was held, and the session is still there
C4_Witness ==
    /\ last.op = "login"
    /\ ~last.success
    /\ last.error = "Invalid username or password"
    /\ authCurrentUser # Null
    /\ ls[AUTH_TOKEN] = authToken

\* ----------------------------------------------------------------------- C5
\* C5: whenever login() returns success, the current session is the matched
\* directory entry with isAuthenticated = true, and the persisted token and
\* session record equal the in-memory token and session.
C5_SuccessfulLoginIsPersisted ==
    (last.op = "login" /\ last.success) =>
        /\ isAuthenticated
        /\ \E i \in DOMAIN MOCK_USERS :
              /\ authCurrentUser.id = MOCK_USERS[i].id
              /\ authCurrentUser.username = MOCK_USERS[i].username
              /\ authCurrentUser.email = MOCK_USERS[i].email
              /\ authCurrentUser.role = MOCK_USERS[i].role
        /\ ls[AUTH_TOKEN] = authToken
        /\ ls[USER_SESSION] = JSONstringify(authCurrentUser)

\* ----------------------------------------------------------------------- C6
\* C6: validateSession() returns false when there is no session; with a
\* session it returns false and leaves no session in memory or in storage
\* when the token fails validation; otherwise it returns true and changes
\* nothing.
C6_ValidateSession ==
    [][ last'.op = "validateSession" =>
          IF ~(authCurrentUser # Null /\ authToken # Null)
          THEN ~last'.result
          ELSE IF TokenProblem(authToken, now)
          THEN /\ ~last'.result
               /\ authCurrentUser' = Null
               /\ authToken' = Null
               /\ \A k \in SessionKeys : ls'[k] = Null
          ELSE /\ last'.result
               /\ UNCHANGED AllButLast
      ]_vars

\* validateSession() has found a held session expired and removed it
C6_Witness ==
    /\ last.op = "validateSession"
    /\ last.had
    /\ ~last.result
    /\ now > T0 + SESSION_MS
    /\ authCurrentUser = Null
    /\ ls[AUTH_TOKEN] = Null

LoggedOut ==
    /\ authCurrentUser = Null
    /\ authToken = Null
    /\ ~isAuthenticated
    /\ \A k \in SessionKeys : ls[k] = Null
    /\ initializeAuth(ls, now).user = Null
    /\ initializeAuth(ls, now).token = Null

C8_Logout ==
    [][ last'.op = "logout" =>
          /\ LoggedOut'
          /\ last.op = "logout" => UNCHANGED AllButLast
      ]_vars

\* logout() has ended a held session
C8_Witness ==
    /\ last.op = "logout"
    /\ last.had
    /\ authCurrentUser = Null
    /\ ls[USER_SESSION] = Null

\* ---------------------------------------------------------------------- C10
\* C10: every entry the session manager persists is an envelope
\* {value, timestamp, type}, and the adapter's getAuthToken / getUserSession
\* return the token and the session that were written.
IsEnvelopeEntry(entry) ==
    /\ entry.t = "json"
    /\ entry.v.t = "envelope"

C10_PersistedThroughAdapter ==
    (last.op = "login" /\ last.success /\ writable) =>
        /\ \A k \in SessionKeys : IsEnvelopeEntry(ls[k])
        /\ getAuthToken(ls) = authToken
        /\ getUserSession(ls) = authCurrentUser

\* ---------------------------------------------------------------------- C11
\* C11: after any sequence of add, toggle, delete and clear-completed, at any
\* timing of the adds, the records of the task list have pairwise distinct
\* ids.
C11_DistinctIds ==
    \A i, j \in 1..Len(tasks) : i # j => tasks[i].id # tasks[j].id

\* ---------------------------------------------------------------------- C12
\* C12: the payload of every token generateMockToken produced has
\* exp = iat + 24 hours exactly.
C12_ExpIsIatPlusLifetime ==
    (authToken # Null /\ decodePayload(authToken).ok) =>
        decodePayload(authToken).exp = decodePayload(authToken).iat + SESSION_MS

\* ---------------------------------------------------------------------- C13
\* C13: decoding the payload of a freshly generated token gives the sub,
\* username, email, role and iat it was built from; the expiry check accepts
\* the token at every time up to and including exp and rejects it at every
\* later time: it accepts right after encoding and rejects at
\* iat + 24h + 1ms.
C13_TokenRoundTrip ==
    [][ /\ (last'.op = "login" /\ last'.success) =>
              LET p == decodePayload(authToken') IN
              /\ p.ok
              /\ p.sub = authCurrentUser'.id
              /\ p.username = authCurrentUser'.username
              /\ p.email = authCurrentUser'.email
              /\ p.role = authCurrentUser'.role
              /\ p.iat = now
              /\ TokenAccepted(authToken', now')
        /\ (last'.op = "validateSession" /\ authCurrentUser # Null /\ authToken # Null) =>
              LET p == decodePayload(authToken) IN
              /\ p.ok
              /\ last'.result <=> now <= p.exp
              /\ now = p.iat + SESSION_MS + 1 => ~last'.result
      ]_vars

\* ---------------------------------------------------------------------- C14
\* C14: validateSession never looks at the header or the signature segment:
\* run on a token that differs from the held one only in these segments it
\* gives the same result and leaves the same session state.
TamperedSegs ==
    { HeaderSeg, BadSeg, SignatureSeg(AdminUser.id), SignatureSeg("tampered") }

C14_SignatureNeverChecked ==
    [][ (last'.op = "validateSession" /\ authCurrentUser # Null
           /\ authToken # Null /\ Len(Split(authToken)) = 3) =>
          \A h \in TamperedSegs, g \in TamperedSegs :
             LET other == Token(<< h, Split(authToken)[2], g >>)
                 r == validateSession(authCurrentUser, other, ls, now)
             IN  /\ r.result = last'.result
                 /\ r.user = authCurrentUser'
                 /\ r.store = ls'
                 /\ IF last'.result
                    THEN r.token = other /\ authToken' = authToken
                    ELSE r.token = Null /\ authToken' = Null
      ]_vars

\* a held token whose signature segment was tampered with has passed
\* validation
C14_Witness ==
    /\ last.op = "validateSession"
    /\ last.had
    /\ last.result
    /\ authToken # Null
    /\ Split(authToken)[3] = SignatureSeg("tampered")
    /\ authCurrentUser # Null

\* ---------------------------------------------------------------------- C15
\* the spellings that equal an entry's username or email when letter case is
\* ignored, and those that do so once the blanks around them are removed
SpellingsOf(i) ==
    IF i = 1
    THEN { "admin", "ADMIN", "Admin", "admin@taskmanager.com", "Admin@TaskManager.com" }
    ELSE { "user", "USER", "user@taskmanager.com", "USER@TASKMANAGER.COM" }

PaddedSpellingsOf(i) ==
    IF i = 1 THEN { " admin " } ELSE { " User@TaskManager.com " }

\* C15 as stated: findUser returns an entry when the identifier equals its
\* username or email ignoring letter case and the secret equals its password
\* exactly; for every other identifier or secret it returns none; it changes
\* no state.
C15_FindUserExactIdentifier ==
    [][ last'.op = "findUser" =>
          /\ \A i \in DOMAIN MOCK_USERS :
                (last'.u \in SpellingsOf(i) /\ last'.p = MOCK_USERS[i].password)
                    => last'.result = MOCK_USERS[i]
          /\ (~ \E i \in DOMAIN MOCK_USERS :
                  last'.u \in SpellingsOf(i) /\ last'.p = MOCK_USERS[i].password)
                    => last'.result = Null
          /\ UNCHANGED AllButLast
      ]_vars

\* C15 amended: the identifier is compared ignoring letter case and the
\* whitespace before and after it; the secret is compared exactly; every
\* other identifier or secret gives none; no state changes.
C15_FindUser ==
    [][ last'.op = "findUser" =>
          /\ \A i \in DOMAIN MOCK_USERS :
                (last'.u \in SpellingsOf(i) \cup PaddedSpellingsOf(i)
                   /\ last'.p = MOCK_USERS[i].password)
                    => last'.result = MOCK_USERS[i]
          /\ (~ \E i \in DOMAIN MOCK_USERS :
                  /\ last'.u \in SpellingsOf(i) \cup PaddedSpellingsOf(i)
                  /\ last'.p = MOCK_USERS[i].password)
                    => last'.result = Null
          /\ UNCHANGED AllButLast
      ]_vars

\* findUser has returned the first entry for its email in another letter
\* case with the exact password
C15_Witness ==
    /\ last.op = "findUser"
    /\ last.u = "Admin@TaskManager.com"
    /\ last.p = "password123"
    /\ last.result = MOCK_USERS[1]

\* ---------------------------------------------------------------------- C16
\* C16: for an authenticated user, add with a text that is not empty after
\* trimming appends one record with the trimmed text, completed = false and
\* the user's id, leaves the earlier records as they were, and a loadTasks()
\* for the same user that follows yields that record.
C16_AddThenLoad ==
    [][ (/\ last'.op = "add"
         /\ Trim(last'.text) # ""
         /\ isAuthenticated
         /\ appCurrentUser # Null
         /\ appCurrentUser.id = authCurrentUser.id) =>
          /\ Len(tasks') = Len(tasks) + 1
          /\ SubSeq(tasks', 1, Len(tasks)) = tasks
          /\ LET added == tasks'[Len(tasks')]
                 loaded == loadTasks(appCurrentUser, ls', writable).tasks
             IN  /\ added.text = Trim(last'.text)
                 /\ added.completed = FALSE
                 /\ added.userId = authCurrentUser.id
                 /\ \E j \in 1..Len(loaded) :
                       /\ loaded[j].id = added.id
                       /\ loaded[j].text = added.text
                       /\ loaded[j].completed = FALSE
                       /\ loaded[j].userId = added.userId
      ]_vars

\* ---------------------------------------------------------------------- C17
\* the texts that are empty or consist of whitespace only
BlankTexts == { "", " " }

\* C17: add with a text that is empty or whitespace only creates no record:
\* the in-memory list and every persisted list stay as they were.
C17_BlankAddChangesNothing ==
    [][ (last'.op = "add" /\ last'.text \in BlankTexts) =>
          /\ tasks' = tasks
          /\ ls' = ls
          /\ last'.outcome = "empty"
      ]_vars

\* an authenticated user with a record in the list has submitted a text of
\* one blank, and the list is as it was
C17_Witness ==
    /\ last.op = "add"
    /\ last.text = " "
    /\ last.outcome = "empty"
    /\ isAuthenticated
    /\ appCurrentUser # Null
    /\ Len(tasks) = 1
    /\ ls[TaskKey(appCurrentUser.id)] = JSONstringify(TaskList(tasks))

\* ---------------------------------------------------------------------- C18
\* C18: toggle(taskId) flips the completed flag of one record with that id
\* and changes nothing else: that record's id, text, owner and createdAt,
\* every other record and the order stay; when no record has the id, the
\* in-memory list and the persisted lists are unchanged.
C18_ToggleFrame ==
    [][ last'.op = "toggle" =>
          IF \E i \in 1..Len(tasks) : tasks[i].id = last'.id
          THEN /\ Len(tasks') = Len(tasks)
               /\ \E i \in 1..Len(tasks) :
                     /\ tasks[i].id = last'.id
                     /\ tasks'[i] = [tasks[i] EXCEPT !.completed = ~@]
                     /\ \A j \in (1..Len(tasks)) \ {i} : tasks'[j] = tasks[j]
          ELSE /\ tasks' = tasks
               /\ ls' = ls
      ]_vars

\* the second of two records with different ids has been toggled to
\* completed, the first is still active
C18_Witness ==
    /\ last.op = "toggle"
    /\ last.found
    /\ Len(tasks) = 2
    /\ tasks[1].id # tasks[2].id
    /\ tasks[2].id = last.id
    /\ tasks[2].completed
    /\ ~tasks[1].completed

\* ---------------------------------------------------------------------- C19
\* C19: remove(taskId) for an id no record has reports NotFound, not a
\* deletion, and leaves the list unchanged; for an id a record has it
\* removes that record, keeps the others in order, and persists the list
\* (checked where the storage takes the write).
C19_DeleteReportsNotFound ==
    [][ last'.op = "delete" =>
          IF \E i \in 1..Len(tasks) : tasks[i].id = last'.id
          THEN /\ tasks' = SelectSeq(tasks, LAMBDA task : task.id # last'.id)
               /\ last'.announced = "deleted"
               /\ (writable /\ appCurrentUser # Null) =>
                     ls'[TaskKey(appCurrentUser.id)] = JSONstringify(TaskList(tasks'))
          ELSE /\ tasks' = tasks
               /\ last'.announced = "NotFound"
      ]_vars

AdapterWrites == { "setItem", "removeItem", "clear" }

\* C21: getItem(key) right after a successful setItem(key, v) on the same
\* adapter returns v, for every key and every value v (string, number,
\* boolean, null, undefined, array, object, object with a property value),
\* on the durable backing and on the in-memory fallback.
C21_SetThenGet ==
    [][(/\ last.op = "setItem"
        /\ last.result
        /\ last'.op = "getItem"
        /\ last'.key = last.key
        /\ ~last'.threw)
       => last'.returned = last.value]_vars

\* an entry that is present and was written without the adapter
IsLegacyEntry(entry) == entry \in LegacyEntries \ {Null}

\* C22: getItem on a present entry that was stored without the envelope
\* returns the JSON-decoded entry for every legacy JSON value (number, string,
\* boolean, null, array, object, object with a property value); only the text
\* undefined and an entry that is no JSON yield the default.
C22_LegacyEntryIsReturnedBare ==
    [][(/\ last'.op = "getItem"
        /\ storage.isAvailable
        /\ ~last'.threw
        /\ IsLegacyEntry(Entry(ls, last'.key)))
       => last'.returned =
            IF Entry(ls, last'.key) \in {UndefinedText, Garbage}
            THEN last'.defaultValue
            ELSE Entry(ls, last'.key).v]_vars

\* C23: when the durable medium throws, setItem, removeItem and clear return
\* false and leave the stored entries as they were, getItem returns the
\* default it was given, and getKeys returns the empty list.
C23_MediumFailureIsAbsorbed ==
    [][(storage.made /\ last'.op # "new" /\ last'.threw) =>
         /\ last'.op \in AdapterWrites =>
               (last'.result = FALSE /\ ls' = ls /\ storage' = storage)
         /\ last'.op = "getItem" => last'.returned = last'.defaultValue
         /\ last'.op = "getKeys" => last'.keys = {}]_vars

\* a write that the medium refused, next to an entry stored before
C23_Witness ==
    /\ last.op = "setItem"
    /\ last.threw
    /\ ~last.result
    /\ last.value # Undefined
    /\ Entry(ls, last.key) # Null
    /\ Entry(ls, last.key) # EnvelopeText(last.value, now)

\* C24: when the probe fails at construction isAvailable is false and the
\* operations work on the in-memory mapping: setItem returns true and a
\* getItem of that key returns the value set, removeItem makes getItem return
\* the default again, clear empties the mapping, and getKeys(prefix) returns
\* the keys set and not removed that start with prefix.
C24_InMemoryFallback ==
    [][/\ (last'.op = "new" /\ last'.threw) => ~storage'.isAvailable
       /\ (storage.made /\ ~storage.isAvailable) =>
            /\ last'.op = "setItem" =>
                  (last'.result /\ ls' = ls
                   /\ getInMemory(storage'.inMemoryStorage, last'.key, Null) = last'.value)
            /\ (last.op = "setItem" /\ last'.op = "getItem" /\ last'.key = last.key)
                  => last'.returned = last.value
            /\ (last.op = "removeItem" /\ last'.op = "getItem" /\ last'.key = last.key)
                  => last'.returned = last'.defaultValue
            /\ last'.op = "clear" =>
                  (last'.result /\ DOMAIN storage'.inMemoryStorage = {})
            /\ last'.op = "getKeys" =>
                  last'.keys = { k \in DOMAIN storage.inMemoryStorage :
                                     StartsWith(k, last'.prefix) }]_vars

\* ------------------------------------------------------------ session expiry

\* the clock has passed the exp of the token that is held
PastExp ==
    /\ authToken # Null
    /\ Len(Split(authToken)) = 3
    /\ Split(authToken)[2].k = "payload"
    /\ now > Split(authToken)[2].exp

\* C25: session expiry takes effect only when initializeAuth() or
\* validateSession() runs.  A step that ends a held session is a page load
\* (initializeAuth), a validateSession or a logout; the passing of time
\* changes neither the session in memory nor the stored one; and with the
\* clock past the token's exp an add that passes the other checks is accepted.
C25_ExpiryIsLazy ==
    [][/\ (isAuthenticated /\ ~isAuthenticated')
            => last'.op \in {"pageLoad", "validateSession", "logout"}
       /\ last'.op = "tick" => UNCHANGED << authCurrentUser, authToken, ls >>
       /\ (/\ last'.op = "add"
           /\ isAuthenticated
           /\ PastExp
           /\ last'.text \notin BlankTexts
           /\ appCurrentUser # Null)
            => (last'.outcome = "added" /\ isAuthenticated')]_vars

\* a task was added under a session whose token had expired
C25_Witness ==
    /\ last.op = "add"
    /\ last.outcome = "added"
    /\ isAuthenticated
    /\ PastExp

\* ------------------------------------------------------------ the login form

\* the login() calls of the form that have not resolved
FormCallsInFlight == { call \in pending : call.form }

\* C26: every login() call eventually resolves, with a result object that
\* says success or failure; the loading flag the form raised at submission
\* is eventually cleared; and a valid submission that arrives while the flag
\* is down is accepted.
C26_LoginResolvesAndFormIsReleased ==
    /\ \A call \in Calls : (call \in pending) ~> (call \notin pending)
    /\ isLoading ~> ~isLoading
    /\ [][/\ (\E call \in pending : call \notin pending')
              => (last'.op = "login" /\ last'.success \in BOOLEAN)
          /\ (last'.op = "submit" /\ ~isLoading /\ last'.outcome # "invalid")
              => (last'.started /\ isLoading')]_vars

\* a login started by the form has failed and the form is free again
C26_Witness ==
    /\ last.op = "login"
    /\ last.form
    /\ ~last.success
    /\ ~isLoading
    /\ FormCallsInFlight = {}

\* C27: for one LoginForm at most one login() call is in flight: a submit
\* event that arrives while isLoading is true starts no login and changes no
\* state.
C27_OneLoginInFlightPerForm ==
    /\ [](Cardinality(FormCallsInFlight) <= 1)
    /\ [](isLoading <=> FormCallsInFlight # {})
    /\ [][(last'.op = "submit" /\ isLoading)
            => (~last'.started /\ UNCHANGED AllButLast)]_vars

\* a submit event arrived while the form's login was in flight
C27_Witness ==
    /\ last.op = "submit"
    /\ last.outcome = "busy"
    /\ isLoading
    /\ Cardinality(FormCallsInFlight) = 1

\* --------------------------------------------------- session and task guards

\* the session entries are absent
SessionAbsent == \A k \in SessionKeys : ls[k] = Null

\* C28: once logout() has completed, isAuthenticated() stays false and the
\* persisted session stays absent until a login() call started after it
\* succeeds: a login() that was waiting in its delay when the logout ran
\* does not re-establish a session.
C28_LogoutOutlastsPendingLogin ==
    [][(/\ last.op = "logout"
        /\ last'.op = "login"
        /\ pending # {})
       => (~isAuthenticated' /\ SessionAbsent')]_vars

\* C29: between operations the token in memory is non-null exactly when the
\* current user in memory is non-null.
C29_TokenIffUser ==
    page # "none" => ((authToken # Null) <=> (authCurrentUser # Null))

\* C30: while isAuthenticated() is false no task operation (add, toggle,
\* delete, clear completed) changes the task list in memory or writes a
\* task entry.
C30_NoTaskOpWithoutSession ==
    [][(~isAuthenticated /\ last'.op \in {"add", "toggle", "delete", "clearCompleted"})
       => (tasks' = tasks /\ ls' = ls)]_vars

====
